---- MODULE Spec2Model ----
(***************************************************************************)
(* Asynchronous job pipeline of the e-commerce backend: order fulfilment   *)
(* (apps/orders/tasks.py) and report generation (apps/reports/tasks.py,    *)
(* apps/reports/views.py, apps/reports/serializers.py) run by Celery       *)
(* workers against shared database rows.                                   *)
(*                                                                         *)
(* Database rows are the shared state.  Each worker holds the in-memory    *)
(* model instances its task loaded; a save(update_fields=...) writes only  *)
(* the named columns of the instance, a bare save() writes all of them.    *)
(* Workers run in autocommit mode: select_for_update().get() outside       *)
(* transaction.atomic() either raises or returns the row with no lock held *)
(* after the statement, so it is modelled as a plain read that may raise.  *)
(***************************************************************************)
EXTENDS Integers, Sequences, FiniteSets, Bags, TLC

\* ------------------------------------------------------------------ bounds
Orders == {"o1", "o2"}
Products == {"p1", "p2"}
Reports == {"r1"}
Workers == {1, 2}

Schedules == {"s1"}

MaxStock == 1
MaxQty == 1
MaxDisturbances == 1
MaxFresh == 2

\* Ids of the rows inserted by Report.objects.create in regenerate and
\* run_scheduled_report, in the order they are handed out.
FreshNames == <<"r2", "r3", "r4">>
Fresh == {FreshNames[i] : i \in 1..MaxFresh}
ReportIds == Reports \cup Fresh

\* ------------------------------------------------------- program constants
process_order_max_retries == 3
generate_report_max_retries == 3
send_order_confirmation_max_retries == 5
send_report_notification_max_retries == 5
expires_days == 30
process_order_countdown == 5
generate_report_countdown == 60
send_order_confirmation_countdown == 10
send_report_notification_countdown == 30
csv_limit == 1000

Processed == {"processing", "shipped", "delivered"}
ReportTypes == {"sales", "inventory", "customers", "orders", "analytics"}
Cancellable == {"pending", "processing"}

NULL == -1

VARIABLES
  workload,      \* which pipeline the explored run exercises
  stock0,        \* Product.stock_quantity at the start of the run
  stock_quantity,\* Product.stock_quantity
  sales_count,   \* Product.sales_count
  items,         \* OrderItem.quantity per order and product (0: no line)
  order_status,  \* Order.status
  status_history,\* OrderStatusHistory rows per order, oldest first
  report,        \* Report rows
  queue,         \* bag of task messages held by the broker
  worker,        \* per worker: the running task and its local variables
  revoked,       \* task ids revoked with terminate=True
  cancel_req,    \* in-flight ReportViewSet.cancel requests
  now,           \* value of the next timezone.now()
  results,       \* outcomes recorded per task run: <<task, id, outcome>>
  disturbances,  \* duplicated deliveries, transient exceptions and cancel
                 \* requests so far
  committed,     \* per order: process_order transactions committed
  saved,         \* per report: generate_report final saves
  enqueued,      \* per follow-up task and id: first enqueues
  succeeded,     \* per follow-up task and id: successful runs
  cancelled_pending, \* reports cancelled while their row read pending
  overlapped,    \* ids for which two runs of the main task overlapped
  confirmed_at,  \* Order.confirmed_at
  population,    \* Order rows the sales report queries, counted by class
  schedule,      \* ReportSchedule rows
  executions,    \* ReportExecution rows, oldest first
  routed         \* per report: queues its generate_report was published to

vars == <<workload, stock0, stock_quantity, sales_count, items, order_status,
          status_history, report, queue, worker, revoked, cancel_req, now,
          results, disturbances, committed, saved, enqueued,
          succeeded, cancelled_pending, overlapped, confirmed_at, population,
          schedule, executions, routed>>

db_orders == <<stock_quantity, sales_count, order_status, status_history,
              confirmed_at>>
inputs == <<workload, stock0, items, population>>
scheduling == <<schedule, executions, routed>>
ghosts_orders == <<committed>>
ghosts_reports == <<saved, cancelled_pending>>
reports_side == <<report, revoked, cancel_req, now>>

\* ---------------------------------------------------------------- messages
LinkTasks == {"send_order_confirmation", "notify_warehouse",
              "post_process_report", "send_report_notification"}
MainTasks == {"process_order", "generate_report"}

\* A task message: task name, the originating id, request.retries, the
\* number of positional arguments it will be called with, the rest of the
\* chain to start when it succeeds, and the countdown it was published
\* with (0: to run at once).
Msg(task, id, retries, nargs, rest) ==
  [task |-> task, id |-> id, retries |-> retries, nargs |-> nargs, rest |-> rest,
   countdown |-> 0]

\* retry_kwargs['countdown'] of the tasks declared with autoretry_for; no
\* task sets retry_backoff.
retry_countdown(task) ==
  CASE task = "process_order" -> process_order_countdown
    [] task = "generate_report" -> generate_report_countdown
    [] task = "send_order_confirmation" -> send_order_confirmation_countdown
    [] task = "send_report_notification" -> send_report_notification_countdown
    [] OTHER -> 0

Put(q, m) == q (+) SetToBag({m})
Take(q, m) == q (-) SetToBag({m})
InQueue == BagToSet(queue)

\* Task.retry as used by autoretry_for: re-publish with retries + 1 while
\* request.retries < max_retries, otherwise the exception is final.
AutoRetry(q, m, max) ==
  IF m.retries < max
  THEN Put(q, [m EXCEPT !.retries = @ + 1, !.countdown = retry_countdown(m.task)])
  ELSE q

RetryOutcome(m, max) == IF m.retries < max THEN "retry" ELSE "failure"

Record(task, id, outcome) == results \cup {<<task, id, outcome>>}

\* ----------------------------------------------------------------- workers
NoReport == [status |-> "absent", progress |-> 0, retry_count |-> 0,
             celery_task_id |-> "", result_data |-> "", result_file |-> "",
             completed_at |-> NULL, expires_at |-> NULL, started_at |-> NULL,
             error_message |-> "", report_type |-> "", parameters |-> "",
             priority |-> "", total_orders |-> NULL, csv_rows |-> NULL]

\* A ReportSchedule row (is_active defaults to True, last_run and next_run
\* to null).
NoSchedule == [is_active |-> TRUE, last_run |-> NULL, next_run |-> NULL,
               report_type |-> "", parameters |-> ""]

\* An id for which neither an Order nor a Report row exists.
Missing == "none"

\* Order rows as the sales report's filter sees them: created inside the
\* report's date range and not deleted, inside and soft-deleted, outside.
Classes == {"inside", "inside_deleted", "outside"}

NoRead == [p \in Products |-> 0]

Idle == [pc |-> "idle", msg |-> Msg("", "", 0, 0, <<>>), seen |-> "",
         rd_stock |-> NoRead, rd_sales |-> NoRead, rec |-> NoReport, step |-> 0]

Running(task, id) == {w \in Workers : worker[w].pc # "idle"
                                       /\ worker[w].msg.task = task
                                       /\ worker[w].msg.id = id}

Lines(o) == {p \in Products : items[o][p] > 0}

\* =================================================================== orders

\* Workloads in which orders are confirmed and processed; cancellations
\* adds customer cancels and the periodic cancel_pending_orders, for orders
\* of one unit of the first product each.
OrderWorkloads == {"orders", "cancellations"}

\* Workloads explored without duplicated deliveries and exceptions.
FaultFree == {"sales", "schedules", "regenerate", "missing"}

\* One more duplicated delivery, transient exception, cancel request or
\* repeated confirm request.
Disturb ==
  /\ workload \notin FaultFree
  /\ disturbances < MaxDisturbances
  /\ disturbances' = disturbances + 1

\* Idle workers are interchangeable: a message goes to the first idle one.
Free(w) ==
  /\ worker[w].pc = "idle"
  /\ \A v \in Workers : v < w => worker[v].pc # "idle"

\* Mutant: the order is confirmed whatever its status.
confirm_order_unchecked(o) ==
  /\ workload \in OrderWorkloads
  /\ order_status[o] # "pending" => Disturb
  /\ order_status[o] = "pending" => UNCHANGED disturbances
  /\ order_status' = [order_status EXCEPT ![o] = "confirmed"]
  /\ confirmed_at' = [confirmed_at EXCEPT ![o] = now]
  /\ status_history' = [status_history EXCEPT ![o] = Append(@, "confirmed")]
  /\ queue' = Put(queue, Msg("process_order", o, 0, 1, <<>>))
  /\ UNCHANGED <<inputs, scheduling, stock_quantity, sales_count, worker,
                 results, committed, enqueued, succeeded, overlapped,
                 reports_side, ghosts_reports>>

\* Order.confirm_order (orders/models.py lines 92-118) called through
\* OrderViewSet.confirm: a pending order becomes confirmed with confirmed_at
\* set, a history row is added and one process_order message is published;
\* for any other status ValueError is raised before anything is written and
\* the view answers 400.  A request for an order that is not pending counts
\* as a disturbance.
confirm_order(o) ==
  /\ workload \in OrderWorkloads
  /\ IF order_status[o] = "pending"
     THEN /\ order_status' = [order_status EXCEPT ![o] = "confirmed"]
          /\ confirmed_at' = [confirmed_at EXCEPT ![o] = now]
          /\ status_history' = [status_history EXCEPT ![o] = Append(@, "confirmed")]
          /\ queue' = Put(queue, Msg("process_order", o, 0, 1, <<>>))
          /\ UNCHANGED <<results, disturbances>>
     ELSE /\ Disturb
          /\ results' = Record("confirm_order", o, "ValueError")
          /\ UNCHANGED <<order_status, confirmed_at, status_history, queue>>
  /\ UNCHANGED <<inputs, scheduling, stock_quantity, sales_count, worker,
                 committed, enqueued, succeeded, overlapped, reports_side,
                 ghosts_reports>>

\* The broker delivers a message of a main task twice (task_acks_late with
\* reject_on_worker_lost: at-least-once delivery).
duplicate_delivery(m) ==
  /\ m \in InQueue
  /\ m.task \in MainTasks
  /\ Disturb
  /\ queue' = Put(queue, m)
  /\ UNCHANGED <<inputs, scheduling, db_orders, worker, results, committed, enqueued,
                 succeeded, overlapped, reports_side, ghosts_reports>>

\* process_order lines 46-56 with the statuses that count as already
\* processed: load the order; an order in one of them is skipped, any other
\* goes on to validation.
ProcessOrderGet(w, m, processed) ==
  /\ Free(w)
  /\ m \in InQueue
  /\ m.task = "process_order"
  /\ m.id \in Orders
  /\ LET o == m.id IN
     IF order_status[o] \in processed
     THEN /\ queue' = Take(queue, m)
          /\ results' = Record("process_order", o, "skipped")
          /\ UNCHANGED <<worker, overlapped>>
     ELSE /\ queue' = Take(queue, m)
          /\ worker' = [worker EXCEPT ![w] =
                          [Idle EXCEPT !.pc = "validating", !.msg = m,
                                       !.seen = order_status[o]]]
          /\ overlapped' = IF Running("process_order", o) # {}
                           THEN overlapped \cup {o} ELSE overlapped
          /\ UNCHANGED results
  /\ UNCHANGED <<inputs, scheduling, db_orders, committed, enqueued, succeeded,
                 reports_side, ghosts_reports, disturbances>>

\* Mutant: the idempotency test forgets the status processing.
process_order_get_forgets_processing(w, m) ==
  ProcessOrderGet(w, m, {"shipped", "delivered"})

\* process_order lines 46-56: an order already processing, shipped or
\* delivered is skipped.
process_order_get(w, m) == ProcessOrderGet(w, m, Processed)

\* process_order lines 46-48 and 109-112: the load raises (no transaction is
\* open for select_for_update, or the database is unavailable); the
\* exception is re-raised and autoretry_for re-publishes the task.
process_order_get_raises(w, m) ==
  /\ Free(w)
  /\ m \in InQueue
  /\ m.task = "process_order"
  /\ m.id \in Orders
  /\ Disturb
  /\ queue' = AutoRetry(Take(queue, m), m, process_order_max_retries)
  /\ results' = Record("process_order", m.id, RetryOutcome(m, process_order_max_retries))
  /\ UNCHANGED <<inputs, scheduling, db_orders, worker, committed, enqueued, succeeded,
                 overlapped, reports_side, ghosts_reports>>

\* A main task is published with an id that has no row (the row was
\* removed, or the caller passed a wrong id); once per task.
delay_missing(task) ==
  /\ workload = "missing"
  /\ ~\E x \in results : x[1] = task
  /\ ~\E m \in InQueue : m.task = task
  /\ queue' = Put(queue, Msg(task, Missing, 0, 1, <<>>))
  /\ UNCHANGED <<inputs, scheduling, db_orders, worker, results, committed,
                 enqueued, succeeded, overlapped, reports_side,
                 ghosts_reports, disturbances>>

\* process_order lines 47-51: Order.DoesNotExist is caught and an error
\* dict returned.
process_order_missing(m) ==
  /\ m \in InQueue
  /\ m.task = "process_order"
  /\ m.id \notin Orders
  /\ queue' = Take(queue, m)
  /\ results' = Record("process_order", m.id, "error")
  /\ UNCHANGED <<inputs, scheduling, db_orders, worker, committed, enqueued,
                 succeeded, overlapped, reports_side, ghosts_reports,
                 disturbances>>

\* generate_report lines 58 and 134-140: Report.DoesNotExist is caught by
\* except Exception, whose body reads the unassigned name report; the
\* UnboundLocalError escapes and autoretry_for re-publishes the task.
generate_report_missing(m) ==
  /\ m \in InQueue
  /\ m.task = "generate_report"
  /\ m.id \notin ReportIds
  /\ queue' = AutoRetry(Take(queue, m), m, generate_report_max_retries)
  /\ results' = Record("generate_report", m.id,
                       RetryOutcome(m, generate_report_max_retries))
  /\ UNCHANGED <<inputs, scheduling, db_orders, worker, committed, enqueued,
                 succeeded, overlapped, reports_side, ghosts_reports,
                 disturbances>>

\* OrderViewSet.cancel (orders/views.py lines 75-101): an order read as
\* pending or confirmed gets update_order_status published with cancelled;
\* any other status is answered with 400.
order_cancel(o) ==
  /\ workload = "cancellations"
  /\ Disturb
  /\ IF order_status[o] \in {"pending", "confirmed"}
     THEN /\ queue' = Put(queue, Msg("update_order_status", o, 0, 3, <<>>))
          /\ UNCHANGED results
     ELSE /\ results' = Record("order_cancel", o, "400")
          /\ UNCHANGED queue
  /\ UNCHANGED <<inputs, scheduling, db_orders, worker, committed, enqueued,
                 succeeded, overlapped, reports_side, ghosts_reports>>

\* update_order_status lines 196-225 as published by OrderViewSet.cancel
\* (new_status cancelled): in one transaction the row is locked, its
\* status overwritten whatever it was, and a history row added.
update_order_status(m) ==
  /\ m \in InQueue
  /\ m.task = "update_order_status"
  /\ order_status' = [order_status EXCEPT ![m.id] = "cancelled"]
  /\ status_history' = [status_history EXCEPT ![m.id] = Append(@, "cancelled")]
  /\ queue' = Take(queue, m)
  /\ results' = Record("update_order_status", m.id, "success")
  /\ UNCHANGED <<inputs, scheduling, stock_quantity, sales_count, confirmed_at,
                 worker, committed, enqueued, succeeded, overlapped,
                 reports_side, ghosts_reports, disturbances>>

\* cancel_pending_orders lines 238-268: the pending orders older than a day
\* are selected; the first one is saved as cancelled, then the name
\* OrderStatusHistory, which the function does not import, raises
\* NameError and the task ends.  Without such an order it returns success.
cancel_pending_orders ==
  /\ workload = "cancellations"
  /\ Disturb
  /\ IF \A o \in Orders : order_status[o] # "pending"
     THEN /\ results' = Record("cancel_pending_orders", "", "success")
          /\ UNCHANGED order_status
     ELSE \E o \in Orders :
            /\ order_status[o] = "pending"
            /\ order_status' = [order_status EXCEPT ![o] = "cancelled"]
            /\ results' = Record("cancel_pending_orders", o, "NameError")
  /\ UNCHANGED <<inputs, scheduling, stock_quantity, sales_count, confirmed_at,
                 status_history, queue, worker, committed, enqueued, succeeded,
                 overlapped, reports_side, ghosts_reports>>

\* The order has a line whose quantity exceeds the product's stock.
Short(o) == \E p \in Lines(o) : stock_quantity[p] < items[o][p]

\* Mutant: the stock of the lines is not compared with the quantities.
process_order_validate_unchecked(w) ==
  /\ worker[w].pc = "validating"
  /\ worker' = [worker EXCEPT ![w].pc = "updating_inventory"]
  /\ UNCHANGED <<inputs, scheduling, db_orders, queue, results, committed,
                 enqueued, succeeded, overlapped, reports_side,
                 ghosts_reports, disturbances>>

\* process_order lines 61-67: inside the transaction, compare every line's
\* quantity with the product's current stock; a shortfall raises ValueError,
\* which autoretry_for=(Exception,) retries like any other exception.
process_order_validate(w) ==
  /\ worker[w].pc = "validating"
  /\ LET m == worker[w].msg
         o == m.id IN
     IF Short(o)
     THEN /\ worker' = [worker EXCEPT ![w] = Idle]
          /\ queue' = AutoRetry(queue, m, process_order_max_retries)
          /\ results' = Record("process_order", o,
                               RetryOutcome(m, process_order_max_retries))
     ELSE /\ worker' = [worker EXCEPT ![w].pc = "updating_inventory"]
          /\ UNCHANGED <<queue, results>>
  /\ UNCHANGED <<inputs, scheduling, db_orders, committed, enqueued, succeeded,
                 overlapped, reports_side, ghosts_reports, disturbances>>

\* process_order line 71: the second query loads the order's lines with
\* their products; the instances keep the stock and sales count read here.
process_order_update_inventory(w) ==
  /\ worker[w].pc = "updating_inventory"
  /\ worker' = [worker EXCEPT ![w].pc = "updating_order",
                              ![w].rd_stock = stock_quantity,
                              ![w].rd_sales = sales_count]
  /\ UNCHANGED <<inputs, scheduling, db_orders, queue, results, committed, enqueued,
                 succeeded, overlapped, reports_side, ghosts_reports,
                 disturbances>>

\* process_order lines 72-87: each product is saved with the loaded value
\* minus the quantity, the order becomes processing, a history row is added
\* and the transaction commits (its writes become visible together).
process_order_commit(w) ==
  /\ worker[w].pc = "updating_order"
  /\ LET o == worker[w].msg.id IN
     /\ stock_quantity' = [p \in Products |->
                             IF p \in Lines(o)
                             THEN worker[w].rd_stock[p] - items[o][p]
                             ELSE stock_quantity[p]]
     /\ sales_count' = [p \in Products |->
                          IF p \in Lines(o)
                          THEN worker[w].rd_sales[p] + items[o][p]
                          ELSE sales_count[p]]
     /\ order_status' = [order_status EXCEPT ![o] = "processing"]
     /\ status_history' = [status_history EXCEPT ![o] = Append(@, "processing")]
     /\ committed' = [committed EXCEPT ![o] = @ + 1]
  /\ worker' = [worker EXCEPT ![w].pc = "chaining"]
  /\ UNCHANGED <<inputs, scheduling, confirmed_at, queue, results, enqueued, succeeded, overlapped,
                 reports_side, ghosts_reports, disturbances>>

\* Mutant: both follow-up tasks are published at once instead of as a
\* chain.
process_order_chain_as_group(w) ==
  /\ worker[w].pc = "chaining"
  /\ worker[w].msg.task = "process_order"
  /\ LET o == worker[w].msg.id IN
     /\ queue' = Put(Put(queue, Msg("send_order_confirmation", o, 0, 1, <<>>)),
                     Msg("notify_warehouse", o, 0, 1, <<>>))
     /\ enqueued' = [enqueued EXCEPT !["send_order_confirmation"][o] = @ + 1,
                                     !["notify_warehouse"][o] = @ + 1]
     /\ results' = Record("process_order", o, "success")
  /\ worker' = [worker EXCEPT ![w] = Idle]
  /\ UNCHANGED <<inputs, scheduling, db_orders, committed, succeeded, overlapped,
                 reports_side, ghosts_reports, disturbances>>

\* process_order lines 94-104: publish the chain's first link with the rest
\* of the chain attached, and return success.
process_order_chain(w) ==
  /\ worker[w].pc = "chaining"
  /\ worker[w].msg.task = "process_order"
  /\ LET o == worker[w].msg.id IN
     /\ queue' = Put(queue, Msg("send_order_confirmation", o, 0, 1,
                                <<"notify_warehouse">>))
     /\ enqueued' = [enqueued EXCEPT !["send_order_confirmation"][o] = @ + 1]
     /\ results' = Record("process_order", o, "success")
  /\ worker' = [worker EXCEPT ![w] = Idle]
  /\ UNCHANGED <<inputs, scheduling, db_orders, committed, succeeded, overlapped,
                 reports_side, ghosts_reports, disturbances>>

\* process_order lines 106-112: an exception other than the stock shortfall
\* (database error, soft time limit, broker error while publishing the
\* chain).  Inside the transaction nothing was written yet; after it the
\* commit stands.  The exception is re-raised and the task re-published.
process_order_raises(w) ==
  /\ worker[w].pc \in {"validating", "updating_inventory", "updating_order",
                       "chaining"}
  /\ worker[w].msg.task = "process_order"
  /\ Disturb
  /\ LET m == worker[w].msg IN
     /\ queue' = AutoRetry(queue, m, process_order_max_retries)
     /\ results' = Record("process_order", m.id,
                          RetryOutcome(m, process_order_max_retries))
  /\ worker' = [worker EXCEPT ![w] = Idle]
  /\ UNCHANGED <<inputs, scheduling, db_orders, committed, enqueued, succeeded,
                 overlapped, reports_side, ghosts_reports>>

\* ============================================================ chain links

\* Number of positional parameters each link's function declares (bound
\* tasks not counting self).
Arity(task) == 1

\* max_retries of the links declared with autoretry_for=(Exception,);
\* notify_warehouse and post_process_report are not retried.
LinkRetries(task) ==
  CASE task = "send_order_confirmation" -> send_order_confirmation_max_retries
    [] task = "send_report_notification" -> send_report_notification_max_retries
    [] OTHER -> 0

\* Links whose body lets an exception escape; notify_warehouse catches
\* every exception and returns an error dict.
MayRaise == {"send_order_confirmation", "post_process_report",
             "send_report_notification"}

\* A link fails: re-published while retries remain, otherwise the chain
\* stops here.
LinkFails(m) ==
  /\ queue' = AutoRetry(Take(queue, m), m, LinkRetries(m.task))
  /\ results' = Record(m.task, m.id, RetryOutcome(m, LinkRetries(m.task)))
  /\ UNCHANGED <<enqueued, succeeded>>

\* A worker runs a chain link.  Called with a number of arguments other
\* than the function declares it raises TypeError; otherwise the body
\* returns and the next link of the chain is published with this link's
\* return value placed before its own argument.
run_link(m) ==
  /\ m \in InQueue
  /\ m.task \in LinkTasks
  /\ IF m.nargs # Arity(m.task)
     THEN LinkFails(m)
     ELSE /\ succeeded' = [succeeded EXCEPT ![m.task][m.id] = @ + 1]
          /\ results' = Record(m.task, m.id, "success")
          /\ IF m.rest = <<>>
             THEN /\ queue' = Take(queue, m)
                  /\ UNCHANGED enqueued
             ELSE /\ queue' = Put(Take(queue, m),
                                  Msg(Head(m.rest), m.id, 0, 2, Tail(m.rest)))
                  /\ enqueued' = [enqueued EXCEPT ![Head(m.rest)][m.id] = @ + 1]
  /\ UNCHANGED <<inputs, scheduling, db_orders, worker, committed, overlapped,
                 reports_side, ghosts_reports, disturbances>>

\* The body of a link raises (mail service, database).
run_link_raises(m) ==
  /\ m \in InQueue
  /\ m.task \in MayRaise
  /\ m.nargs = Arity(m.task)
  /\ Disturb
  /\ LinkFails(m)
  /\ UNCHANGED <<inputs, scheduling, db_orders, worker, committed, overlapped,
                 reports_side, ghosts_reports>>

\* ================================================================== reports

\* Progress values the type's generator writes to the row, in order
\* (_generate_sales_report, _generate_inventory_report; the other three
\* generators only call update_state).
Milestones(type) ==
  CASE type = "sales" -> <<30, 50, 70, 90>>
    [] type = "inventory" -> <<30, 70>>
    [] OTHER -> <<>>

\* Generators that filter on parameters start_date / end_date raise when a
\* value is None or malformed; the number of milestones written before.
UsesDates == {"sales", "orders", "analytics"}
RaisesAfter(type) == IF type = "sales" THEN 1 ELSE 0

TaskId(r) == r

\* app.conf.task_routes (config/celery.py): the queue a task published
\* without an explicit queue goes to; tasks without a route go to the
\* default queue.
task_routes(task) ==
  CASE task = "process_order" -> "high_priority"
    [] task = "send_order_confirmation" -> "default"
    [] task = "generate_report" -> "reports"
    [] OTHER -> "celery"

\* Mutant: the new row keeps the default (empty) parameters.
NewReportDefaultParameters(type, parameters, priority) ==
  [NoReport EXCEPT !.status = "pending", !.report_type = type,
                   !.priority = priority]

\* A new Report row as Report.objects.create inserts it.
NewReport(type, parameters, priority) ==
  [NoReport EXCEPT !.status = "pending", !.report_type = type,
                   !.parameters = parameters, !.priority = priority]

\* The id of the next row inserted by regenerate or run_scheduled_report.
Used == {f \in Fresh : report[f].status # "absent"}
HasFresh == Used # Fresh
NewId == FreshNames[Cardinality(Used) + 1]

\* ReportCreateSerializer.create: a new pending row and one generate_report
\* message, published to reports_high_priority for an urgent report and
\* with delay() otherwise.  The sales workload creates sales reports with
\* a valid date range only, the regenerate workload customers reports;
\* urgent reports are created in the regenerate workload.
create(r, type, parameters, priority) ==
  /\ workload \in {"reports", "sales", "regenerate"}
  /\ workload = "reports" => priority = "normal"
  /\ workload = "sales" => /\ type = "sales"
                           /\ parameters = "valid"
                           /\ priority = "normal"
  /\ workload = "regenerate" => /\ type = "customers"
                                /\ parameters = "valid"
  /\ report[r].status = "absent"
  /\ report' = [report EXCEPT ![r] = NewReport(type, parameters, priority)]
  /\ queue' = Put(queue, Msg("generate_report", r, 0, 1, <<>>))
  /\ routed' = [routed EXCEPT ![r] =
                  @ \cup {IF priority = "urgent" THEN "reports_high_priority"
                          ELSE task_routes("generate_report")}]
  /\ UNCHANGED <<inputs, schedule, executions, db_orders, worker, results,
                 committed, enqueued, succeeded, overlapped, revoked,
                 cancel_req, now, ghosts_reports, disturbances>>

\* ReportViewSet.regenerate (views.py lines 187-211): a new row copying the
\* original's type, parameters and priority, and generate_report.delay for
\* it whatever the priority.  Requested for reports that have finished,
\* when no task is queued or running.
regenerate(r) ==
  /\ workload = "regenerate"
  /\ report[r].status \in {"completed", "failed", "cancelled"}
  /\ queue = EmptyBag
  /\ \A w \in Workers : worker[w].pc = "idle"
  /\ HasFresh
  /\ report' = [report EXCEPT ![NewId] =
                  NewReport(report[r].report_type, report[r].parameters,
                            report[r].priority)]
  /\ queue' = Put(queue, Msg("generate_report", NewId, 0, 1, <<>>))
  /\ routed' = [routed EXCEPT ![NewId] = @ \cup {task_routes("generate_report")}]
  /\ UNCHANGED <<inputs, schedule, executions, db_orders, worker, results,
                 committed, enqueued, succeeded, overlapped, revoked,
                 cancel_req, now, ghosts_reports, disturbances>>

\* ReportScheduleViewSet.toggle (views.py lines 272-286): flip is_active and
\* save that column.
toggle(s) ==
  /\ workload = "schedules"
  /\ schedule' = [schedule EXCEPT ![s].is_active = ~@]
  /\ UNCHANGED <<inputs, executions, routed, db_orders, queue, worker, results,
                 committed, enqueued, succeeded, overlapped, reports_side,
                 ghosts_reports, disturbances>>

\* run_scheduled_report messages published so far and not yet run.
Triggered == {m \in InQueue : m.task = "run_scheduled_report"}

\* ReportScheduleViewSet.run_now (views.py lines 242-257): publish
\* run_scheduled_report for the schedule, active or not.  One trigger is in
\* flight at a time and the run stops when the ids are used up.
run_now(s) ==
  /\ workload = "schedules"
  /\ Triggered = {}
  /\ Len(executions) < MaxFresh
  /\ queue' = Put(queue, Msg("run_scheduled_report", s, 0, 1, <<>>))
  /\ UNCHANGED <<inputs, scheduling, db_orders, worker, results, committed,
                 enqueued, succeeded, overlapped, reports_side,
                 ghosts_reports, disturbances>>

\* run_scheduled_report (tasks.py lines 534-587).  The schedule is fetched
\* with is_active=True.  Found: a new normal-priority Report with the
\* schedule's type and parameters, generate_report.delay for it, last_run
\* set to the start time and an execution row with success True.  Not
\* found: DoesNotExist is caught, an execution row with success False is
\* written and the exception re-raised (the task has no retry).
RunScheduledReport(m, found) ==
  /\ m \in InQueue
  /\ m.task = "run_scheduled_report"
  /\ LET s == m.id IN
     IF found
     THEN /\ HasFresh
          /\ report' = [report EXCEPT ![NewId] =
                          NewReport(schedule[s].report_type,
                                    schedule[s].parameters, "normal")]
          /\ queue' = Put(Take(queue, m), Msg("generate_report", NewId, 0, 1, <<>>))
          /\ routed' = [routed EXCEPT ![NewId] =
                          @ \cup {task_routes("generate_report")}]
          /\ schedule' = [schedule EXCEPT ![s].last_run = now]
          /\ now' = now + 1
          /\ executions' = Append(executions,
                                  [schedule |-> s, report |-> NewId, success |-> TRUE])
          /\ results' = Record("run_scheduled_report", s, "success")
     ELSE /\ queue' = Take(queue, m)
          /\ executions' = Append(executions,
                                  [schedule |-> s, report |-> "", success |-> FALSE])
          /\ results' = Record("run_scheduled_report", s, "failure")
          /\ UNCHANGED <<report, routed, schedule, now>>
  /\ UNCHANGED <<inputs, db_orders, worker, committed, enqueued, succeeded,
                 overlapped, revoked, cancel_req, ghosts_reports, disturbances>>

\* Mutant: the schedule is fetched by id alone.
run_scheduled_report_ignores_is_active(m) == RunScheduledReport(m, TRUE)

\* run_scheduled_report line 543: the fetch finds the schedule only while
\* it is active.
run_scheduled_report(m) ==
  RunScheduledReport(m, m.task = "run_scheduled_report" /\ schedule[m.id].is_active)

\* generate_report lines 56-64: load the row, then write status processing,
\* the task id and the start time.  No status is tested.
generate_report_claim(w, m) ==
  /\ Free(w)
  /\ m \in InQueue
  /\ m.task = "generate_report"
  /\ m.id \in ReportIds
  /\ TaskId(m.id) \notin revoked
  /\ LET r == m.id
         rec == [report[r] EXCEPT !.status = "processing",
                                  !.celery_task_id = TaskId(r),
                                  !.started_at = now] IN
     /\ report' = [report EXCEPT ![r].status = rec.status,
                                 ![r].celery_task_id = rec.celery_task_id,
                                 ![r].started_at = rec.started_at]
     /\ worker' = [worker EXCEPT ![w] =
                     [Idle EXCEPT !.pc = "initializing", !.msg = m, !.rec = rec]]
     /\ overlapped' = IF Running("generate_report", r) # {}
                      THEN overlapped \cup {r} ELSE overlapped
  /\ now' = now + 1
  /\ queue' = Take(queue, m)
  /\ UNCHANGED <<inputs, scheduling, db_orders, results, committed, enqueued, succeeded,
                 revoked, cancel_req, ghosts_reports, disturbances>>

\* generate_report lines 58 and 134-140: the load raises; the handler then
\* refers to the unassigned name report, so no row is written and the
\* resulting exception is retried by autoretry_for.
generate_report_get_raises(w, m) ==
  /\ Free(w)
  /\ m \in InQueue
  /\ m.task = "generate_report"
  /\ m.id \in ReportIds
  /\ TaskId(m.id) \notin revoked
  /\ Disturb
  /\ queue' = AutoRetry(Take(queue, m), m, generate_report_max_retries)
  /\ results' = Record("generate_report", m.id,
                       RetryOutcome(m, generate_report_max_retries))
  /\ UNCHANGED <<inputs, scheduling, db_orders, worker, committed, enqueued, succeeded,
                 overlapped, reports_side, ghosts_reports>>

\* A worker drops a queued message whose task id was revoked.
discard_revoked(m) ==
  /\ m \in InQueue
  /\ m.task = "generate_report"
  /\ TaskId(m.id) \in revoked
  /\ queue' = Take(queue, m)
  /\ results' = Record("generate_report", m.id, "revoked")
  /\ UNCHANGED <<inputs, scheduling, db_orders, worker, committed, enqueued, succeeded,
                 overlapped, reports_side, ghosts_reports, disturbances>>

\* save(update_fields=['progress', 'progress_message']) of the instance.
WriteProgress(w, value) ==
  /\ report' = [report EXCEPT ![worker[w].msg.id].progress = value]
  /\ worker' = [worker EXCEPT ![w].rec.progress = value,
                              ![w].pc = "generating",
                              ![w].step = IF worker[w].pc = "initializing"
                                          THEN 0 ELSE @ + 1]

\* The instance's parameters make the generator's date filter raise.
BadDates(w) ==
  /\ worker[w].rec.report_type \in UsesDates
  /\ worker[w].rec.parameters = "invalid"
  /\ worker[w].step = RaisesAfter(worker[w].rec.report_type)

\* generate_report lines 68-75: progress 10, and the milestones of the
\* type's generator (lines 148-202, 219-227).
generate_report_progress(w) ==
  /\ \/ /\ worker[w].pc = "initializing"
        /\ WriteProgress(w, 10)
     \/ /\ worker[w].pc = "generating"
        /\ ~BadDates(w)
        /\ worker[w].step < Len(Milestones(worker[w].rec.report_type))
        /\ WriteProgress(w, Milestones(worker[w].rec.report_type)[worker[w].step + 1])
  /\ UNCHANGED <<inputs, scheduling, db_orders, queue, results, committed, enqueued,
                 succeeded, overlapped, revoked, cancel_req, now,
                 ghosts_reports, disturbances>>

\* _generate_sales_report lines 158-163: the filter keeps the orders with
\* created_at inside the date range and is_deleted False.
InRange == {"inside", "inside_deleted"}
Deleted == {"inside_deleted"}
Selected == InRange \ Deleted

RECURSIVE Count(_)
\* Number of order rows in the classes S.
Count(S) ==
  IF S = {} THEN 0
  ELSE LET c == CHOOSE x \in S : TRUE IN population[c] + Count(S \ {c})

\* _generate_sales_report lines 172-176 and 206: Count('id') over the
\* filtered orders.
total_orders == Count(Selected)

\* _generate_sales_report lines 185-196: one header row, then one row for
\* each of the first csv_limit filtered orders.
csv_rows ==
  1 + (IF Count(Selected) <= csv_limit THEN Count(Selected) ELSE csv_limit)

\* generate_report lines 94-111: result, progress 100, completed, the
\* completion and expiry times and the file are set on the instance, and a
\* bare save() writes every column of the instance.
generate_report_save(w) ==
  /\ worker[w].pc = "generating"
  /\ ~BadDates(w)
  /\ worker[w].step = Len(Milestones(worker[w].rec.report_type))
  /\ LET r == worker[w].msg.id
         sales == worker[w].rec.report_type = "sales"
         rec == [worker[w].rec EXCEPT !.result_data = "summary",
                                      !.total_orders =
                                         IF sales THEN total_orders ELSE @,
                                      !.csv_rows = IF sales THEN csv_rows ELSE @,
                                      !.progress = 100,
                                      !.status = "completed",
                                      !.completed_at = now,
                                      !.expires_at = now + expires_days,
                                      !.result_file = "csv"] IN
     /\ report' = [report EXCEPT ![r] = rec]
     /\ worker' = [worker EXCEPT ![w].rec = rec, ![w].pc = "chaining"]
     /\ saved' = [saved EXCEPT ![r] = @ + 1]
  /\ now' = now + 1
  /\ UNCHANGED <<inputs, scheduling, db_orders, queue, results, committed, enqueued,
                 succeeded, overlapped, revoked, cancel_req,
                 cancelled_pending, disturbances>>

\* generate_report lines 115-125: publish the follow-up chain and return.
generate_report_chain(w) ==
  /\ worker[w].pc = "chaining"
  /\ worker[w].msg.task = "generate_report"
  /\ LET r == worker[w].msg.id IN
     /\ queue' = Put(queue, Msg("post_process_report", r, 0, 1,
                                <<"send_report_notification">>))
     /\ enqueued' = [enqueued EXCEPT !["post_process_report"][r] = @ + 1]
     /\ results' = Record("generate_report", r, "success")
  /\ worker' = [worker EXCEPT ![w] = Idle]
  /\ UNCHANGED <<inputs, scheduling, db_orders, committed, succeeded, overlapped,
                 reports_side, ghosts_reports, disturbances>>

\* generate_report lines 134-140: status failed, the message and
\* retry_count + 1 of the instance are written, the exception is re-raised
\* and autoretry_for re-publishes the task while retries remain.
HandlerFails(w) ==
  LET m == worker[w].msg
      r == m.id IN
  /\ report' = [report EXCEPT ![r].status = "failed",
                              ![r].error_message = "error",
                              ![r].retry_count = worker[w].rec.retry_count + 1]
  /\ queue' = AutoRetry(queue, m, generate_report_max_retries)
  /\ results' = Record("generate_report", r,
                       RetryOutcome(m, generate_report_max_retries))
  /\ worker' = [worker EXCEPT ![w] = Idle]

\* The generator raises on the report's parameters (every attempt).
generate_report_bad_parameters(w) ==
  /\ worker[w].pc = "generating"
  /\ BadDates(w)
  /\ HandlerFails(w)
  /\ UNCHANGED <<inputs, scheduling, db_orders, committed, enqueued, succeeded,
                 overlapped, revoked, cancel_req, now, ghosts_reports,
                 disturbances>>

\* A transient exception anywhere in the body after the load (database,
\* storage, broker while publishing the chain).
generate_report_raises(w) ==
  /\ worker[w].pc \in {"initializing", "generating", "chaining"}
  /\ worker[w].msg.task = "generate_report"
  /\ Disturb
  /\ HandlerFails(w)
  /\ UNCHANGED <<inputs, scheduling, db_orders, committed, enqueued, succeeded,
                 overlapped, revoked, cancel_req, now, ghosts_reports>>

\* generate_report lines 127-132: the soft time limit expires; status
\* failed and the timeout message are written (retry_count is not), the
\* exception is re-raised and retried like any other.
generate_report_timeout(w) ==
  /\ worker[w].pc \in {"initializing", "generating", "chaining"}
  /\ worker[w].msg.task = "generate_report"
  /\ Disturb
  /\ LET m == worker[w].msg
         r == m.id IN
     /\ report' = [report EXCEPT ![r].status = "failed",
                                 ![r].error_message = "timed out"]
     /\ queue' = AutoRetry(queue, m, generate_report_max_retries)
     /\ results' = Record("generate_report", r,
                          RetryOutcome(m, generate_report_max_retries))
  /\ worker' = [worker EXCEPT ![w] = Idle]
  /\ UNCHANGED <<inputs, scheduling, db_orders, committed, enqueued, succeeded,
                 overlapped, revoked, cancel_req, now, ghosts_reports>>

\* revoke(task_id, terminate=True) reaches the worker running the task: the
\* process is killed, nothing more is written.
terminate(w) ==
  /\ worker[w].pc # "idle"
  /\ worker[w].msg.task = "generate_report"
  /\ TaskId(worker[w].msg.id) \in revoked
  /\ worker' = [worker EXCEPT ![w] = Idle]
  /\ results' = Record("generate_report", worker[w].msg.id, "revoked")
  /\ UNCHANGED <<inputs, scheduling, db_orders, queue, committed, enqueued, succeeded,
                 overlapped, reports_side, ghosts_reports, disturbances>>

\* ReportViewSet.cancel lines 137-142: load the row and test its status; a
\* status other than pending or processing is answered with 400.
NoRequest == [open |-> FALSE, status |-> "", celery_task_id |-> ""]

cancel_check(r) ==
  /\ report[r].status # "absent"
  /\ ~cancel_req[r].open
  /\ Disturb
  /\ IF report[r].status \in Cancellable
     THEN /\ cancel_req' = [cancel_req EXCEPT ![r] =
                              [open |-> TRUE, status |-> report[r].status,
                               celery_task_id |-> report[r].celery_task_id]]
          /\ UNCHANGED results
     ELSE /\ results' = Record("cancel", r, "400")
          /\ UNCHANGED cancel_req
  /\ UNCHANGED <<inputs, scheduling, db_orders, queue, worker, committed, enqueued,
                 succeeded, overlapped, report, revoked, now, ghosts_reports>>

\* ReportViewSet.cancel lines 144-156: revoke the task if the loaded row
\* carries a task id, then save(update_fields=['status']) with cancelled.
cancel_write(r) ==
  /\ cancel_req[r].open
  /\ revoked' = IF cancel_req[r].celery_task_id # ""
                THEN revoked \cup {cancel_req[r].celery_task_id} ELSE revoked
  /\ report' = [report EXCEPT ![r].status = "cancelled"]
  /\ cancel_req' = [cancel_req EXCEPT ![r] = NoRequest]
  /\ cancelled_pending' = IF report[r].status = "pending"
                          THEN cancelled_pending \cup {r}
                          ELSE cancelled_pending
  /\ results' = Record("cancel", r, "200")
  /\ UNCHANGED <<inputs, scheduling, db_orders, queue, worker, committed, enqueued,
                 succeeded, overlapped, now, saved, disturbances>>

\* ============================================================ specification

\* Numbers of orders per class: none, one, as many as the CSV holds, more.
Counts == {0, 1, csv_limit, csv_limit + 1}

ScheduleChoices ==
  {[NoSchedule EXCEPT !.is_active = a, !.report_type = t, !.parameters = "valid"] :
     a \in BOOLEAN, t \in {"customers"}}

ItemChoices == {f \in [Products -> 0..MaxQty] : \E p \in Products : f[p] > 0}

Init ==
  /\ workload \in {"orders", "cancellations", "reports", "sales", "schedules",
                   "regenerate", "missing"}
  /\ CASE workload = "orders" ->
            /\ stock0 \in [Products -> 0..MaxStock]
            /\ items \in [Orders -> ItemChoices]
       [] workload = "cancellations" ->
            /\ stock0 = [p \in Products |-> MaxStock]
            /\ items = [o \in Orders |-> [p \in Products |->
                                            IF p = "p1" THEN MaxQty ELSE 0]]
       [] OTHER ->
            /\ stock0 = [p \in Products |-> 0]
            /\ items = [o \in Orders |-> [p \in Products |-> 0]]
  /\ stock_quantity = stock0
  /\ sales_count = [p \in Products |-> 0]
  /\ order_status = [o \in Orders |-> "pending"]
  /\ status_history = [o \in Orders |-> <<>>]
  /\ report = [r \in ReportIds |-> NoReport]
  /\ queue = EmptyBag
  /\ worker = [w \in Workers |-> Idle]
  /\ revoked = {}
  /\ cancel_req = [r \in ReportIds |-> NoRequest]
  /\ now = 1
  /\ results = {}
  /\ disturbances = 0
  /\ committed = [o \in Orders |-> 0]
  /\ saved = [r \in ReportIds |-> 0]
  /\ enqueued = [t \in LinkTasks |-> [i \in Orders \cup ReportIds |-> 0]]
  /\ succeeded = [t \in LinkTasks |-> [i \in Orders \cup ReportIds |-> 0]]
  /\ cancelled_pending = {}
  /\ overlapped = {}
  /\ confirmed_at = [o \in Orders |-> NULL]
  /\ IF workload = "sales"
     THEN population \in {f \in [Classes -> Counts] :
                             \A c \in Classes \ Selected : f[c] <= 1}
     ELSE population = [c \in Classes |-> 0]
  /\ IF workload = "schedules"
     THEN schedule \in [Schedules -> ScheduleChoices]
     ELSE schedule = [s \in Schedules |-> NoSchedule]
  /\ executions = <<>>
  /\ routed = [r \in ReportIds |-> {}]

Next ==
  \/ \E o \in Orders : confirm_order(o)
  \/ \E m \in InQueue : duplicate_delivery(m)
  \/ \E w \in Workers, m \in InQueue : process_order_get(w, m)
  \/ \E w \in Workers, m \in InQueue : process_order_get_raises(w, m)
  \/ \E w \in Workers : process_order_validate(w)
  \/ \E w \in Workers : process_order_update_inventory(w)
  \/ \E w \in Workers : process_order_commit(w)
  \/ \E w \in Workers : process_order_chain(w)
  \/ \E w \in Workers : process_order_raises(w)
  \/ \E t \in MainTasks : delay_missing(t)
  \/ \E m \in InQueue : process_order_missing(m)
  \/ \E m \in InQueue : generate_report_missing(m)
  \/ \E o \in Orders : order_cancel(o)
  \/ \E m \in InQueue : update_order_status(m)
  \/ cancel_pending_orders
  \/ \E m \in InQueue : run_link(m)
  \/ \E m \in InQueue : run_link_raises(m)
  \/ \E r \in Reports, t \in ReportTypes, ps \in {"valid", "invalid"},
        pr \in {"urgent", "normal"} : create(r, t, ps, pr)
  \/ \E r \in ReportIds : regenerate(r)
  \/ \E s \in Schedules : toggle(s)
  \/ \E s \in Schedules : run_now(s)
  \/ \E m \in InQueue : run_scheduled_report(m)
  \/ \E w \in Workers, m \in InQueue : generate_report_claim(w, m)
  \/ \E w \in Workers, m \in InQueue : generate_report_get_raises(w, m)
  \/ \E m \in InQueue : discard_revoked(m)
  \/ \E w \in Workers : generate_report_progress(w)
  \/ \E w \in Workers : generate_report_save(w)
  \/ \E w \in Workers : generate_report_chain(w)
  \/ \E w \in Workers : generate_report_bad_parameters(w)
  \/ \E w \in Workers : generate_report_raises(w)
  \/ \E w \in Workers : generate_report_timeout(w)
  \/ \E w \in Workers : terminate(w)
  \/ \E r \in Reports : cancel_check(r)
  \/ \E r \in Reports : cancel_write(r)

Spec == Init /\ [][Next]_vars

\* The steps workers take on their own once a message is queued or a task
\* is running.
Work ==
  \/ \E w \in Workers, m \in InQueue : process_order_get(w, m)
  \/ \E w \in Workers : process_order_validate(w)
  \/ \E w \in Workers : process_order_update_inventory(w)
  \/ \E w \in Workers : process_order_commit(w)
  \/ \E w \in Workers : process_order_chain(w)
  \/ \E m \in InQueue : process_order_missing(m)
  \/ \E m \in InQueue : generate_report_missing(m)
  \/ \E m \in InQueue : update_order_status(m)
  \/ \E m \in InQueue : run_link(m)
  \/ \E m \in InQueue : run_scheduled_report(m)
  \/ \E w \in Workers, m \in InQueue : generate_report_claim(w, m)
  \/ \E m \in InQueue : discard_revoked(m)
  \/ \E w \in Workers : generate_report_progress(w)
  \/ \E w \in Workers : generate_report_save(w)
  \/ \E w \in Workers : generate_report_chain(w)
  \/ \E w \in Workers : generate_report_bad_parameters(w)
  \/ \E w \in Workers : terminate(w)
  \/ \E r \in Reports : cancel_write(r)

\* Workers keep consuming queued messages and keep running the task they
\* hold; requests, duplicated deliveries and exceptions are not forced.
FairSpec == Spec /\ WF_vars(Work)

\* =================================================================== claims

RECURSIVE Ordered(_, _)
\* Total quantity of product p on the orders in S.
Ordered(S, p) ==
  IF S = {} THEN 0
  ELSE LET o == CHOOSE x \in S : TRUE IN items[o][p] + Ordered(S \ {o}, p)

Fulfilled == {o \in Orders : committed[o] >= 1}

\* C1: for concurrent process_order jobs of different orders against one
\* product, the quantities of the jobs that succeeded (order moved to
\* processing) never add up to more than the product's initial stock.
C1_StockConsistency ==
  \A p \in Products : Ordered(Fulfilled, p) <= stock0[p]

\* C2: at most one execution of process_order per order id, and of
\* generate_report per report id, is past the claim step at any time.
C2_OneActivePerJob ==
  /\ \A o \in Orders : Cardinality(Running("process_order", o)) <= 1
  /\ \A r \in Reports : Cardinality(Running("generate_report", r)) <= 1

C4_RerunCompletedIsNoOp ==
  [][\A w \in Workers : \A m \in InQueue :
       (generate_report_claim(w, m) /\ report[m.id].status = "completed")
       => /\ report'[m.id] = report[m.id]
          /\ UNCHANGED <<enqueued, worker>>]_vars

\* C5: a report's retry_count never exceeds max_retries.
C5_RetryBound ==
  \A r \in Reports : report[r].retry_count <= generate_report_max_retries

AllowedTransitions ==
  {<<"absent", "pending">>, <<"pending", "processing">>,
   <<"pending", "cancelled">>, <<"processing", "completed">>,
   <<"processing", "failed">>, <<"processing", "cancelled">>}

\* C6: a report's status only moves pending -> processing -> completed,
\* failed or cancelled, and never leaves completed, failed or cancelled.
C6_MonotonicStatus ==
  [][\A r \in Reports :
       report'[r].status # report[r].status
       => <<report[r].status, report'[r].status>> \in AllowedTransitions]_vars

\* C7: a report cancelled while pending stays cancelled and its
\* generate_report body is never executed afterwards.
C7_CancelPendingIsFinal ==
  \A r \in cancelled_pending :
     /\ report[r].status = "cancelled"
     /\ Running("generate_report", r) = {}

\* C8: a report that has reached completed or failed is never overwritten
\* to cancelled.
C8_CancelIsCompareAndSet ==
  [][\A r \in Reports :
       report[r].status \in {"completed", "failed"}
       => report'[r].status # "cancelled"]_vars

\* C9: a follow-up link is published only after the link before it
\* succeeded: send_order_confirmation after the order's transaction
\* committed, notify_warehouse after send_order_confirmation succeeded,
\* post_process_report after the report was saved completed,
\* send_report_notification after post_process_report succeeded; a link
\* that did not succeed has no successor published or run.
C9_ChainOrder ==
  /\ \A o \in Orders :
       /\ enqueued["send_order_confirmation"][o] <= committed[o]
       /\ enqueued["notify_warehouse"][o] <= succeeded["send_order_confirmation"][o]
       /\ succeeded["notify_warehouse"][o] <= enqueued["notify_warehouse"][o]
  /\ \A r \in Reports :
       /\ enqueued["post_process_report"][r] <= saved[r]
       /\ enqueued["send_report_notification"][r] <= succeeded["post_process_report"][r]
       /\ succeeded["send_report_notification"][r]
            <= enqueued["send_report_notification"][r]
  /\ \A m \in InQueue :
       /\ m.task = "send_order_confirmation" => committed[m.id] >= 1
       /\ m.task = "notify_warehouse" => succeeded["send_order_confirmation"][m.id] >= 1
       /\ m.task = "post_process_report" => saved[m.id] >= 1
       /\ m.task = "send_report_notification" => succeeded["post_process_report"][m.id] >= 1

\* C9 witness: an order was committed, its confirmation link succeeded and
\* the warehouse link was then published.
C9_Witness ==
  \E o \in Orders : /\ committed[o] >= 1
                    /\ succeeded["send_order_confirmation"][o] >= 1
                    /\ enqueued["notify_warehouse"][o] >= 1

\* C10: while one attempt of generate_report runs (status processing, no
\* other run of the report overlapping it) the row's progress never
\* decreases from one read to the next, and it always lies in 0..100.
C10_ProgressMonotone ==
  /\ [][\A r \in Reports :
          (report[r].status = "processing" /\ r \notin overlapped')
          => report'[r].progress >= report[r].progress]_vars
  /\ [](\A r \in Reports : report[r].progress \in 0..100)

\* Orders with a line whose quantity exceeds the product's initial stock.
ShortFromStart == {o \in Orders : \E p \in Lines(o) : stock0[p] < items[o][p]}

\* C11: when a line of the order exceeds its product's stock, process_order
\* fails as a whole: the validation step changes no stock, sales count,
\* order status or history row and publishes no chain, and an order that
\* was short from the start is never moved on and never has a chain.
C11_NoPartialFulfilment ==
  /\ [][\A w \in Workers :
          (/\ worker[w].pc = "validating"
           /\ Short(worker[w].msg.id)
           /\ process_order_validate(w))
          => /\ UNCHANGED <<stock_quantity, sales_count, order_status,
                            status_history, enqueued, committed>>
             /\ worker'[w] = Idle
             /\ \E out \in {"retry", "failure"} :
                   <<"process_order", worker[w].msg.id, out>> \in results']_vars
  /\ [](\A o \in ShortFromStart :
          /\ committed[o] = 0
          /\ order_status[o] \notin Processed
          /\ enqueued["send_order_confirmation"][o] = 0
          /\ \A p \in Products :
                (\A x \in Orders : items[x][p] > 0 => x \in ShortFromStart)
                => stock_quantity[p] = stock0[p] /\ sales_count[p] = 0)

\* C11 witness: an order with one line in stock and one line short has
\* failed for good.
C11_Witness ==
  \E o \in Orders : \E p, q \in Lines(o) :
     /\ stock0[p] >= items[o][p]
     /\ stock0[q] < items[o][q]
     /\ <<"process_order", o, "failure">> \in results

\* C12: a process_order attempt that fails on insufficient stock is final:
\* the task is not published again and the failure is recorded.
C12_ShortfallNotRetried ==
  [][\A w \in Workers :
       (/\ worker[w].pc = "validating"
        /\ Short(worker[w].msg.id)
        /\ process_order_validate(w))
       => /\ queue' = queue
          /\ <<"process_order", worker[w].msg.id, "failure">> \in results']_vars

\* C13: a generated sales report over a range holding K non-deleted orders
\* has total_orders = K and a CSV of K + 1 rows.
C13_SalesReportRows ==
  \A r \in Reports :
     (report[r].report_type = "sales" /\ report[r].total_orders # NULL)
     => /\ report[r].total_orders = population["inside"]
        /\ report[r].csv_rows = population["inside"] + 1

\* Execution rows with success True.
Successes == {i \in 1..Len(executions) : executions[i].success}

\* C14: run_scheduled_report for an inactive schedule creates no Report and
\* publishes no generate_report, and toggling a schedule changes no Report,
\* message or running task.
C14_InactiveSuppressed ==
  /\ [][\A m \in InQueue :
          (/\ m.task = "run_scheduled_report"
           /\ ~schedule[m.id].is_active
           /\ run_scheduled_report(m))
          => /\ report' = report
             /\ queue' = Take(queue, m)
             /\ routed' = routed]_vars
  /\ [][\A s \in Schedules :
          toggle(s) => /\ report' = report
                       /\ queue' = queue
                       /\ worker' = worker]_vars

\* C14 witness: a schedule fired, was made inactive and was then triggered
\* again without effect, while the report of the first firing exists.
C14_Witness ==
  \E i, j \in 1..Len(executions) :
     /\ i < j
     /\ executions[i].success
     /\ ~executions[j].success
     /\ report[executions[i].report].status # "absent"
     /\ Cardinality(Used) = Cardinality(Successes)

QueueFor(r) ==
  IF report[r].priority = "urgent" THEN "reports_high_priority" ELSE "reports"

\* C16: every publication of generate_report for an urgent report goes to
\* the high-priority report queue, and for any other report to the reports
\* queue.
C16_PriorityRouting ==
  \A r \in ReportIds :
     report[r].status # "absent" => routed[r] = {QueueFor(r)}

\* C17: confirm_order on a pending order sets confirmed and confirmed_at,
\* adds a confirmed history row and publishes process_order once for that
\* order; on any other status it raises ValueError and changes no field,
\* history row or message.
C17_ConfirmOrder ==
  [][\A o \in Orders :
       confirm_order(o)
       => IF order_status[o] = "pending"
          THEN /\ order_status'[o] = "confirmed"
               /\ confirmed_at'[o] # NULL
               /\ status_history'[o] = Append(status_history[o], "confirmed")
               /\ queue' = Put(queue, Msg("process_order", o, 0, 1, <<>>))
               /\ \A x \in Orders \ {o} :
                     /\ order_status'[x] = order_status[x]
                     /\ confirmed_at'[x] = confirmed_at[x]
                     /\ status_history'[x] = status_history[x]
          ELSE /\ UNCHANGED <<order_status, confirmed_at, status_history,
                              queue, stock_quantity, sales_count>>
               /\ <<"confirm_order", o, "ValueError">> \in results']_vars

\* C17 witness: an order was confirmed and a second confirm of it was
\* rejected.
C17_Witness ==
  \E o \in Orders : /\ confirmed_at[o] # NULL
                    /\ Len(status_history[o]) >= 1
                    /\ <<"confirm_order", o, "ValueError">> \in results

\* C18: while an automatic attempt of generate_report is still to run for
\* a report, its row never reads failed.
C18_FailedOnlyWhenExhausted ==
  \A r \in Reports :
     report[r].status = "failed"
     => ~\E m \in InQueue : m.task = "generate_report" /\ m.id = r

\* C19: an attempt of generate_report after the first starts with the
\* row's progress at 0.
C19_ProgressResetOnRetry ==
  [][\A w \in Workers : \A m \in InQueue :
       (m.task = "generate_report" /\ m.retries > 0 /\ generate_report_claim(w, m))
       => report'[m.id].progress = 0]_vars

\* C20: a soft time limit in generate_report increments retry_count like
\* any other failure and the stored message names the timeout.
C20_TimeoutCountsAsFailure ==
  [][\A w \in Workers :
       (worker[w].msg.task = "generate_report" /\ generate_report_timeout(w))
       => /\ report'[worker[w].msg.id].retry_count
               = report[worker[w].msg.id].retry_count + 1
          /\ report'[worker[w].msg.id].error_message = "timed out"]_vars

\* C21: generate_report and process_order called with an id that has no
\* row return without raising and are not published again.
C21_MissingRecordFailsFast ==
  /\ \A m \in InQueue : m.id = Missing => m.retries = 0
  /\ \A x \in results : x[2] = Missing => x[3] = "error"

\* C22: every follow-up link is called with exactly one argument, the id
\* of the originating job.
C22_LinksGetOriginatingId ==
  \A m \in InQueue : m.task \in LinkTasks => m.nargs = 1

\* C23: the delays of the automatic retries of process_order and
\* generate_report grow: from the second retry on the delay is larger than
\* the delay of the first retry (retry_countdown).
C23_ExponentialBackoff ==
  \A m \in InQueue :
     (m.task \in MainTasks /\ m.retries >= 2)
     => m.countdown > retry_countdown(m.task)

\* C24: a run of run_scheduled_report for an active schedule sets last_run
\* to the firing time and next_run to a later time.
C24_ScheduleRunTimes ==
  [][\A m \in InQueue :
       (/\ m.task = "run_scheduled_report"
        /\ schedule[m.id].is_active
        /\ run_scheduled_report(m))
       => /\ schedule'[m.id].last_run = now
          /\ schedule'[m.id].next_run > now]_vars

\* C25: every change of an order's status comes with a history row
\* carrying the new status.
C25_AuditTrail ==
  [][\A o \in Orders :
       order_status'[o] # order_status[o]
       => status_history'[o] = Append(status_history[o], order_status'[o])]_vars

\* C26: no product's stock_quantity is ever below 0.
C26_StockNonNegative ==
  \A p \in Products : stock_quantity[p] >= 0

\* C27: process_order never commits (decrements stock for and sets to
\* processing) an order whose status is cancelled or refunded.
C27_CancelledNeverProcessed ==
  [][\A w \in Workers :
       process_order_commit(w)
       => order_status[worker[w].msg.id] \notin {"cancelled", "refunded"}]_vars

\* C28: an order that process_order has moved to processing is never set
\* to cancelled by a customer cancel requested before.
C28_CancelOnlyWhileCancellable ==
  [][\A o \in Orders :
       order_status[o] = "processing" => order_status'[o] # "cancelled"]_vars

\* C29: a report whose status is completed has progress 100 and
\* completed_at and expires_at set.
C29_CompletedIsComplete ==
  \A r \in Reports :
     report[r].status = "completed"
     => /\ report[r].progress = 100
        /\ report[r].completed_at # NULL
        /\ report[r].expires_at # NULL

\* C30: once process_order has committed an order to processing, the
\* chain's first link for that order is eventually published.
C30_ChainNotLost ==
  \A o \in Orders :
     (committed[o] >= 1) ~> (enqueued["send_order_confirmation"][o] >= 1)

====
